---- MODULE Spec2Model ----
(***************************************************************************)
(* RosettaReconciler (src/lib/reconciler/index.js): the two reconciliation *)
(* loops, the coordinator accountReconciliation, the comparator            *)
(* compareBalance and the shared queues, seen-set and highWaterMark.       *)
(*                                                                         *)
(* JavaScript values are records [t, v]: the code mixes numbers, booleans  *)
(* and undefined in arithmetic and comparisons, and the model keeps the    *)
(* coercions the language applies.                                         *)
(***************************************************************************)
EXTENDS Integers, Sequences, FiniteSets, TLC

\* ---------------------------------------------------------------- bounds
MaxBlock == 1          \* block indexes and head range over 0..MaxBlock
MaxValue == 1          \* balances range over 0..MaxValue
MaxQueue == 2          \* longest changeQueue explored
MaxCalls == 2          \* direct calls of accountReconciliation explored
requiredDepthInactive == 1   \* configuration.requiredDepthInactive (default 500)
waitToCheckDiff == 2         \* configuration.waitToCheckDiff (default 10000)

Accounts == {"a1", "a2"}
Blocks == 0..MaxBlock
Values == 0..MaxValue
Callers == {"active", "inactive", "direct"}

\* ------------------------------------------------------- JavaScript values
Num(n) == [t |-> "num", v |-> n]
Bool(b) == [t |-> "bool", v |-> IF b THEN 1 ELSE 0]
Undefined == [t |-> "undefined", v |-> 0]
NaN == [t |-> "NaN", v |-> 0]
Null == [t |-> "null", v |-> 0]

\* ToNumber: true -> 1, false -> 0, undefined -> NaN
ToNumber(x) ==
  CASE x.t = "num" -> x
    [] x.t = "bool" -> Num(x.v)
    [] OTHER -> NaN

\* a - b
JsSub(a, b) ==
  IF ToNumber(a).t = "num" /\ ToNumber(b).t = "num"
  THEN Num(ToNumber(a).v - ToNumber(b).v) ELSE NaN

\* a + b on numbers
JsAdd(a, b) ==
  IF ToNumber(a).t = "num" /\ ToNumber(b).t = "num"
  THEN Num(ToNumber(a).v + ToNumber(b).v) ELSE NaN

\* a < b: false as soon as one side is NaN
JsLt(a, b) ==
  /\ ToNumber(a).t = "num"
  /\ ToNumber(b).t = "num"
  /\ ToNumber(a).v < ToNumber(b).v

\* obj[k], undefined when the object has no such property
Prop(obj, k) == IF k \in DOMAIN obj THEN obj[k] ELSE Undefined

\* x == null
IsNullish(x) == x = Undefined

\* -------------------------------------------------------------- utilities
\* Hash (../utils): canonical, field-order independent serialization
Hash(obj) == {<<k, obj[k]>> : k \in DOMAIN obj}

\* SubtractValues (../utils): exact decimal subtraction
SubtractValues(a, b) == JsSub(a, b)

\* the object accountReconciliation builds at lines 181-184
AccountCurrencyOf(accountIdentifier, currency) ==
  [account_identifier |-> accountIdentifier, currency |-> currency]

\* RosettaReconciler.AccountCurrency, lines 392-405
AccountCurrency(accountIdentifier, currency) ==
  [account |-> accountIdentifier, currency |-> currency]

Currency == [symbol |-> "DGB"]

\* defaults.highWaterMark, line 39
defaultHighWaterMark == -1

\* a balance change as the syncer hands it to queueChanges
BalanceChange(a, i) ==
  [account_identifier |-> a, currency |-> Currency, block |-> [index |-> i]]

\* ------------------------------------------------------------ comparator
\* compareBalance with the test of line 143 turned round
compareBalance_NoGone(amount, blockIdentifier, head, exists, cachedBalance, balanceBlock) ==
  IF blockIdentifier.index > head.index
  THEN [error |-> "ERROR_HEAD_BEHIND_LIVE", difference |-> Undefined,
        cachedBalance |-> Undefined, headIndex |-> Undefined]
  ELSE IF exists
  THEN [error |-> "BLOCK_GONE", difference |-> Undefined,
        cachedBalance |-> Undefined, headIndex |-> Undefined]
  ELSE IF blockIdentifier.index < balanceBlock.index
  THEN [error |-> "ACCOUNT_UPDATED", difference |-> Undefined,
        cachedBalance |-> Undefined, headIndex |-> Undefined]
  ELSE [error |-> "none",
        difference |-> SubtractValues(cachedBalance.value, amount),
        cachedBalance |-> cachedBalance.value,
        headIndex |-> Num(head.index)]

\* compareBalance with > for the < of line 151
compareBalance_Newer(amount, blockIdentifier, head, exists, cachedBalance, balanceBlock) ==
  IF blockIdentifier.index > head.index
  THEN [error |-> "ERROR_HEAD_BEHIND_LIVE", difference |-> Undefined,
        cachedBalance |-> Undefined, headIndex |-> Undefined]
  ELSE IF ~exists
  THEN [error |-> "BLOCK_GONE", difference |-> Undefined,
        cachedBalance |-> Undefined, headIndex |-> Undefined]
  ELSE IF blockIdentifier.index > balanceBlock.index
  THEN [error |-> "ACCOUNT_UPDATED", difference |-> Undefined,
        cachedBalance |-> Undefined, headIndex |-> Undefined]
  ELSE [error |-> "none",
        difference |-> SubtractValues(cachedBalance.value, amount),
        cachedBalance |-> cachedBalance.value,
        headIndex |-> Num(head.index)]

\* compareBalance, lines 130-164.  head, exists, cachedBalance and
\* balanceBlock are what the helper answers at the three awaits.
compareBalance(amount, blockIdentifier, head, exists, cachedBalance, balanceBlock) ==
  IF blockIdentifier.index > head.index
  THEN [error |-> "ERROR_HEAD_BEHIND_LIVE", difference |-> Undefined,
        cachedBalance |-> Undefined, headIndex |-> Undefined]
  ELSE IF ~exists
  THEN [error |-> "BLOCK_GONE", difference |-> Undefined,
        cachedBalance |-> Undefined, headIndex |-> Undefined]
  ELSE IF blockIdentifier.index < balanceBlock.index
  THEN [error |-> "ACCOUNT_UPDATED", difference |-> Undefined,
        cachedBalance |-> Undefined, headIndex |-> Undefined]
  ELSE [error |-> "none",
        difference |-> SubtractValues(cachedBalance.value, amount),
        cachedBalance |-> cachedBalance.value,
        headIndex |-> Num(head.index)]

\* if (difference): any non-empty string is truthy
differenceNotZero_M(difference) == difference.t = "num"

\* difference != "0", line 252: undefined and NaN are not "0"
differenceNotZero(difference) == ~(difference.t = "num" /\ difference.v = 0)

\* the lag test of lines 208-209; headIndex is the local declared at line 189
lagBelowThreshold(blockIdentifier, headIndex) ==
  JsLt(JsSub(Num(blockIdentifier.index), headIndex), Num(waitToCheckDiff))

\* ------------------------------------------------------ inactive bookkeeping
\* ContainsAccountCurrency, lines 277-280
ContainsAccountCurrency(accountCurrencyMap, accountCurrency) ==
  Hash(accountCurrency) \in accountCurrencyMap

\* inactiveAccountQueue without the assignment of line 287
inactiveAccountQueue_M(seen, queue, isInactive, accountCurrency, blockIdentifier) ==
  LET fresh == ~isInactive /\ ~(Hash(accountCurrency) \in seen)
  IN [seenAccounts |-> seen,
      inactiveQueue |->
        IF isInactive \/ fresh
        THEN Append(queue, [entry |-> accountCurrency, lastCheck |-> blockIdentifier])
        ELSE queue]

\* inactiveAccountQueue without the membership test of line 285
inactiveAccountQueue_Unseen(seen, queue, isInactive, accountCurrency, blockIdentifier) ==
  [seenAccounts |-> IF isInactive THEN seen ELSE seen \cup {Hash(accountCurrency)},
   inactiveQueue |->
     Append(queue, [entry |-> accountCurrency, lastCheck |-> blockIdentifier])]

\* inactiveAccountQueue, lines 282-297: the seen-set and the queue after the call
inactiveAccountQueue(seen, queue, isInactive, accountCurrency, blockIdentifier) ==
  LET fresh == ~isInactive /\ ~ContainsAccountCurrency(seen, accountCurrency)
  IN [seenAccounts |-> IF fresh THEN seen \cup {Hash(accountCurrency)} ELSE seen,
      inactiveQueue |->
        IF isInactive \/ fresh
        THEN Append(queue, [entry |-> accountCurrency, lastCheck |-> blockIdentifier])
        ELSE queue]

\* handleSeenAccounts, lines 80-89, over the list withSeenAccounts
RECURSIVE handleSeenAccounts(_)
handleSeenAccounts(seenAccounts) ==
  IF seenAccounts = << >>
  THEN [seenAccounts |-> {}, inactiveQueue |-> << >>]
  ELSE LET rest == handleSeenAccounts(Tail(seenAccounts))
           s == Head(seenAccounts)
       IN [seenAccounts |-> {Hash(s)} \cup rest.seenAccounts,
           inactiveQueue |-> <<[entry |-> s]>> \o rest.inactiveQueue]

\* the eligibility test of the inactive loop, lines 333-336
inactiveEligible(queue, head) ==
  /\ Len(queue) > 0
  /\ \/ IsNullish(Prop(queue[1], "last_check"))
     \/ JsLt(JsAdd(Num(Prop(queue[1], "last_check").index), Num(requiredDepthInactive)),
             Prop(head, "index"))

\* ------------------------------------------------------- balance retrieval
\* methods reachable through an instance (this.x); ContainsAccountCurrency and
\* extractAmount are declared static (lines 277, 367)
instanceMethods ==
  {"handleSeenAccounts", "queueChanges", "compareBalance", "bestBalance",
   "accountReconciliation", "inactiveAccountQueue", "reconcileActiveAccounts",
   "reconcileInactiveAccounts", "reconcile", "getCurrencyBalance"}

\* extractAmount, lines 367-374
RECURSIVE extractAmount(_, _)
extractAmount(amountArray, currency) ==
  IF amountArray = << >> THEN [thrown |-> "Error", value |-> Undefined]
  ELSE IF Hash(Head(amountArray).currency) # Hash(currency)
       THEN extractAmount(Tail(amountArray), currency)
       ELSE [thrown |-> "none", value |-> Head(amountArray).value]

\* getCurrencyBalance, lines 376-389, once the fetcher has answered
getCurrencyBalance(fetched, currency) ==
  IF "extractAmount" \notin instanceMethods
  THEN [thrown |-> "TypeError"]
  ELSE LET liveAmount == extractAmount(fetched.liveBalances, currency)
       IN IF liveAmount.thrown # "none"
          THEN [thrown |-> liveAmount.thrown]
          ELSE [thrown |-> "none", block |-> fetched.liveBlock, value |-> liveAmount.value]

\* the block bestBalance hands to the fetcher, lines 166-177 (null = latest)
bestBalanceBlock(lookup, partialBlockIdentifier) ==
  IF lookup THEN Null ELSE partialBlockIdentifier

\* ------------------------------------------------------------ active queue
\* queueChanges, lines 92-103: some interesting account is not skipped, so the
\* push of lines 104-109 is evaluated
synthesizes(interesting, balanceChangesArray) ==
  \E account \in interesting :
    \A i \in 1..Len(balanceChangesArray) : Hash(account) # Hash(balanceChangesArray[i])

\* queueChanges, lines 91-128: the changeQueue after the call and whether it
\* threw.  Line 108 reads the name block, which nothing declares.
queueChanges(queue, lookup, hwm, interesting, blockIdentifier, balanceChangesArray) ==
  IF synthesizes(interesting, balanceChangesArray)
  THEN [thrown |-> "ReferenceError", changeQueue |-> queue]
  ELSE IF ~lookup /\ JsLt(Num(blockIdentifier.index), hwm)
  THEN [thrown |-> "none", changeQueue |-> queue]
  ELSE [thrown |-> "none", changeQueue |-> queue \o balanceChangesArray]

\* the filter of line 302 with <= for <
RECURSIVE staleFront_M(_, _)
staleFront_M(queue, hwm) ==
  IF queue # << >> /\ ~JsLt(hwm, Num(Head(queue).block.index))
  THEN <<Head(queue)>> \o staleFront_M(Tail(queue), hwm)
  ELSE << >>

\* the stale events the active loop drops in one run of lines 300-302
RECURSIVE staleFront(_, _)
staleFront(queue, hwm) ==
  IF queue # << >> /\ JsLt(Num(Head(queue).block.index), hwm)
  THEN <<Head(queue)>> \o staleFront(Tail(queue), hwm)
  ELSE << >>

\* ------------------------------------------------------------------ state
VARIABLES
  lookupBalanceByBlock,  \* this.lookupBalanceByBlock
  interestingAccounts,   \* this.interestingAccounts
  highWaterMark,         \* this.highWaterMark
  inactiveQueue,         \* this.inactiveQueue
  seenAccounts,          \* this.seenAccounts (its keys)
  changeQueue,           \* this.changeQueue
  head,                  \* index of the block helper.currentBlock() answers
  pc,                    \* where each caller of accountReconciliation stands
  call,                  \* locals of each caller's accountReconciliation call
  balanceChange,         \* reconcileActiveAccounts: the event shifted at line 301
  dropped,               \* the events the last run of lines 300-302 discarded
  randomAccount,         \* reconcileInactiveAccounts: the entry shifted at line 337
  poppedAt,              \* head index when randomAccount was shifted
  preSeeded,             \* hashes seeded by the constructor
  rotation,              \* hashes ever pushed on inactiveQueue
  activeAppends,         \* per hash, pushes made by active-path bookkeeping
  activeRuns,            \* per hash, runs of active-path bookkeeping
  calls,                 \* direct calls of accountReconciliation made so far
  compared,              \* the last direct call of compareBalance: inputs and outcome
  lastQueue,             \* the last queueChanges call: batch, outcome, events pushed
  asked,                 \* per loop, the block bestBalance handed to the fetcher
  answered,              \* per loop, what the fetcher answered
  headFailed             \* reconcileInactiveAccounts: currentBlock failed at line 325

vars == <<lookupBalanceByBlock, interestingAccounts, highWaterMark, inactiveQueue,
          seenAccounts, changeQueue, head, pc, call, balanceChange, dropped,
          randomAccount, poppedAt, preSeeded, rotation, activeAppends, activeRuns, calls,
          compared, lastQueue, asked, answered, headFailed>>

config == <<lookupBalanceByBlock, interestingAccounts, preSeeded>>
shared == <<highWaterMark, inactiveQueue, seenAccounts, rotation, activeAppends, activeRuns>>
activeLocals == <<balanceChange, dropped>>
inactiveLocals == <<randomAccount, poppedAt>>
Loops == {"active", "inactive"}

None == [none |-> TRUE]

\* a fresh accountReconciliation frame (lines 180-189) with its observations
NewCall(accountIdentifier, amount, blockIdentifier, isInactive) ==
  [accountIdentifier |-> accountIdentifier, amount |-> amount,
   blockIdentifier |-> blockIdentifier, isInactive |-> isInactive,
   difference |-> Undefined, cachedBalance |-> Undefined, headIndex |-> Undefined,
   error |-> "unset", lag |-> 0, succeeded |-> 0, failed |-> 0,
   failedWith |-> <<Undefined, Undefined>>, queued |-> 0,
   thrown |-> "none", markAfter |-> Undefined, done |-> FALSE]

NoCall == NewCall("a1", Undefined, [index |-> 0], FALSE)

AllHashes == {Hash(AccountCurrencyOf(a, Currency)) : a \in Accounts}

\* constructor, lines 57-78
Init ==
  /\ lookupBalanceByBlock \in BOOLEAN
  /\ interestingAccounts \in {{}, {AccountCurrency("a1", Currency)}}
  /\ \E withSeenAccounts \in {<< >>, <<AccountCurrencyOf("a1", Currency)>>} :
       LET h == handleSeenAccounts(withSeenAccounts)
       IN /\ inactiveQueue = h.inactiveQueue
          /\ seenAccounts = h.seenAccounts
          /\ preSeeded = h.seenAccounts
          /\ rotation = h.seenAccounts
  /\ highWaterMark = Bool(lookupBalanceByBlock)
  /\ changeQueue = << >>
  /\ head = 0
  /\ pc = [p \in Callers |-> IF p = "direct" THEN "idle" ELSE "top"]
  /\ call = [p \in Callers |-> NoCall]
  /\ balanceChange = None
  /\ dropped = << >>
  /\ randomAccount = None
  /\ poppedAt = 0
  /\ activeAppends = [h \in AllHashes |-> 0]
  /\ activeRuns = [h \in AllHashes |-> 0]
  /\ calls = 0
  /\ compared = None
  /\ lastQueue = None
  /\ asked = [p \in Loops |-> None]
  /\ answered = [p \in Loops |-> None]
  /\ headFailed = FALSE

\* ------------------------------------------------------------ coordinator
Home(p) == IF p = "direct" THEN "idle" ELSE "top"

\* an error leaves accountReconciliation: a direct caller sees the rejection,
\* a loop (lines 299-357, no try around the call) ends with it
Throw(p, c, name) ==
  /\ pc' = [pc EXCEPT ![p] = IF p = "direct" THEN "idle" ELSE "fault"]
  /\ call' = [call EXCEPT ![p] = [c EXCEPT !.thrown = name, !.done = TRUE]]

\* lines 265-273: bookkeeping, then reconciliationSucceeded is called
Bookkeep(p, c) ==
  LET accountCurrency == AccountCurrencyOf(c.accountIdentifier, Currency)
      r == inactiveAccountQueue(seenAccounts, inactiveQueue, c.isInactive,
                                accountCurrency, c.blockIdentifier)
      pushed == Len(r.inactiveQueue) - Len(inactiveQueue)
      h == Hash(accountCurrency)
  IN /\ seenAccounts' = r.seenAccounts
     /\ inactiveQueue' = r.inactiveQueue
     /\ rotation' = IF pushed > 0 THEN rotation \cup {h} ELSE rotation
     /\ activeAppends' = IF ~c.isInactive
                         THEN [activeAppends EXCEPT ![h] = @ + pushed]
                         ELSE activeAppends
     /\ activeRuns' = IF ~c.isInactive
                      THEN [activeRuns EXCEPT ![h] = @ + 1]
                      ELSE activeRuns
     /\ call' = [call EXCEPT ![p] = [c EXCEPT !.queued = @ + 1, !.succeeded = @ + 1]]
     /\ pc' = [pc EXCEPT ![p] = "succeededCb"]

\* lines 246-273 up to the first await
AfterCompare(p, c) ==
  IF differenceNotZero(c.difference)
  THEN /\ call' = [call EXCEPT ![p] =
                     [c EXCEPT !.failed = @ + 1,
                               !.failedWith = <<c.cachedBalance, c.amount>>]]
       /\ pc' = [pc EXCEPT ![p] = "failedCb"]
       /\ UNCHANGED <<inactiveQueue, seenAccounts, rotation, activeAppends, activeRuns>>
  ELSE Bookkeep(p, c)

\* a client calls accountReconciliation itself, isInactive drawn from paths
DirectCallOf(paths) ==
  /\ pc["direct"] = "idle"
  /\ calls < MaxCalls
  /\ calls' = calls + 1
  /\ \E a \in Accounts, amount \in Values, i \in 0..(MaxBlock + 1), isInactive \in paths :
       call' = [call EXCEPT !["direct"] = NewCall(a, Num(amount), [index |-> i], isInactive)]
  /\ pc' = [pc EXCEPT !["direct"] = "compare"]
  /\ UNCHANGED <<config, compared, lastQueue, asked, answered, headFailed, shared, changeQueue, head, activeLocals, inactiveLocals>>

\* what a helper call inside compareBalance may throw instead of answering:
\* nothing, an error that is no ReconcilerError, or a ReconcilerError whose
\* type is none of the three of lines 203-236
HelperFailures == {"none", "Error", "RECONCILIATION_ERROR_OTHER"}

\* a client calls accountReconciliation on either path
DirectCall == DirectCallOf(BOOLEAN)

\* a client makes the call of lines 310-316: the active path, isInactive false
ActiveCall == DirectCallOf({FALSE})

\* lines 186-244 and on to the first await after them: compareBalance answers
\* or a helper call inside it throws
Compare(p) ==
  /\ pc[p] = "compare"
  /\ \/ \E failure \in HelperFailures \ {"none"} :
          IF failure = "Error"
          THEN \* line 242: throw e
               /\ Throw(p, [call[p] EXCEPT !.error = failure], "Error")
               /\ UNCHANGED <<inactiveQueue, seenAccounts, rotation, activeAppends, activeRuns>>
          ELSE \* lines 238-239: default: break leaves the switch only
               AfterCompare(p, [call[p] EXCEPT !.error = failure])
     \/ \E exists \in BOOLEAN, cached \in Values, balanceIndex \in 0..head :
          LET c0 == call[p]
              r == compareBalance(c0.amount, c0.blockIdentifier, [index |-> head], exists,
                                  [value |-> Num(cached)], [index |-> balanceIndex])
              behind == r.error = "ERROR_HEAD_BEHIND_LIVE"
              seen == [c0 EXCEPT !.error = r.error,
                                 !.lag = IF behind THEN c0.blockIdentifier.index - head ELSE 0,
                                 !.markAfter = IF behind THEN highWaterMark ELSE Undefined]
          IN CASE r.error = "none" ->
                    AfterCompare(p, [seen EXCEPT !.difference = r.difference,
                                                 !.cachedBalance = r.cachedBalance,
                                                 !.headIndex = r.headIndex])
               [] r.error = "ERROR_HEAD_BEHIND_LIVE" ->
                    IF lagBelowThreshold(c0.blockIdentifier, c0.headIndex)
                    THEN /\ pc' = [pc EXCEPT ![p] = "retrySleep"]
                         /\ call' = [call EXCEPT ![p] = seen]
                         /\ UNCHANGED <<inactiveQueue, seenAccounts, rotation, activeAppends, activeRuns>>
                    ELSE \* line 221 reads partialBlockIdentifier, which nothing declares
                         /\ Throw(p, seen, "ReferenceError")
                         /\ UNCHANGED <<inactiveQueue, seenAccounts, rotation, activeAppends, activeRuns>>
               [] OTHER -> AfterCompare(p, seen)
  /\ UNCHANGED <<config, compared, lastQueue, asked, answered, headFailed, highWaterMark, changeQueue, head, activeLocals, inactiveLocals, calls>>

\* reconciliationFailed answers, lines 253-273
FailedReturn(p) ==
  /\ pc[p] = "failedCb"
  /\ \E error \in BOOLEAN :
       IF error
       THEN /\ Throw(p, call[p], "HandlerError")
            /\ UNCHANGED <<inactiveQueue, seenAccounts, rotation, activeAppends, activeRuns>>
       ELSE Bookkeep(p, call[p])
  /\ UNCHANGED <<config, compared, lastQueue, asked, answered, headFailed, highWaterMark, changeQueue, head, activeLocals, inactiveLocals, calls>>

\* reconciliationSucceeded answers, lines 267-273: the call returns
SucceededReturn(p) ==
  /\ pc[p] = "succeededCb"
  /\ pc' = [pc EXCEPT ![p] = Home(p)]
  /\ call' = [call EXCEPT ![p].done = TRUE]
  /\ UNCHANGED <<config, compared, lastQueue, asked, answered, headFailed, shared, changeQueue, head, activeLocals, inactiveLocals, calls>>

\* sleep resolves: line 210 goes back to the comparison, line 354 to the loop top
Wake(p) ==
  /\ pc[p] \in {"sleep", "retrySleep"}
  /\ pc' = [pc EXCEPT ![p] = IF pc[p] = "sleep" THEN "top" ELSE "compare"]
  /\ UNCHANGED <<config, compared, lastQueue, asked, answered, headFailed, shared, changeQueue, head, call, activeLocals, inactiveLocals, calls>>

\* ------------------------------------------------------------------ loops
\* reconcileActiveAccounts, lines 300-304, up to the await of bestBalance
ActiveTop ==
  /\ pc["active"] = "top"
  /\ LET stale == staleFront(changeQueue, highWaterMark)
         rest == SubSeq(changeQueue, Len(stale) + 1, Len(changeQueue))
     IN /\ dropped' = stale
        /\ IF rest = << >>
           THEN \* shift() gave undefined: line 302 throws a TypeError
                /\ changeQueue' = << >>
                /\ balanceChange' = None
                /\ pc' = [pc EXCEPT !["active"] = "fault"]
                /\ UNCHANGED asked
           ELSE /\ changeQueue' = Tail(rest)
                /\ balanceChange' = Head(rest)
                /\ pc' = [pc EXCEPT !["active"] = "best"]
                /\ asked' = [asked EXCEPT !["active"] =
                               bestBalanceBlock(lookupBalanceByBlock, Head(rest).block)]
  /\ UNCHANGED <<config, compared, lastQueue, answered, headFailed, shared, head, call, inactiveLocals, calls>>

\* reconcileInactiveAccounts, lines 321-355, up to the first await.
\* helper.currentBlock() is not awaited: head is the block when the helper
\* answers synchronously and a promise (no index) otherwise.  The helper
\* fails when nothing is synced: a synchronous helper throws into the catch
\* of line 326, the promise of an asynchronous one rejects outside it.
InactiveTop ==
  /\ pc["inactive"] = "top"
  /\ \E sync \in BOOLEAN, fails \in BOOLEAN :
       LET headSeen == IF sync THEN [index |-> Num(head)] ELSE [promise |-> TRUE]
           partial == IF sync THEN [index |-> head] ELSE [promise |-> TRUE]
       IN /\ headFailed' = fails
          /\ IF sync /\ fails
             THEN /\ pc' = [pc EXCEPT !["inactive"] = "sleep"]
                  /\ UNCHANGED <<inactiveQueue, inactiveLocals, asked>>
             ELSE IF inactiveEligible(inactiveQueue, headSeen)
             THEN /\ randomAccount' = Head(inactiveQueue)
                  /\ inactiveQueue' = Tail(inactiveQueue)
                  /\ poppedAt' = head
                  /\ pc' = [pc EXCEPT !["inactive"] = "best"]
                  /\ asked' = [asked EXCEPT !["inactive"] =
                                 bestBalanceBlock(lookupBalanceByBlock, partial)]
             ELSE /\ pc' = [pc EXCEPT !["inactive"] = "sleep"]
                  /\ UNCHANGED <<inactiveQueue, inactiveLocals, asked>>
  /\ UNCHANGED <<config, compared, lastQueue, answered, highWaterMark, seenAccounts, rotation, activeAppends, activeRuns,
                 changeQueue, head, call, activeLocals, calls>>

\* the fetcher answers bestBalance (lines 304-316 and 339-351): the loop
\* destructures the result and calls accountReconciliation
LoopBest(p) ==
  /\ p \in {"active", "inactive"}
  /\ pc[p] = "best"
  /\ \E live \in Blocks, v \in Values :
       LET entry == IF p = "active" THEN balanceChange ELSE randomAccount.entry
           answer == [liveBlock |-> IF "index" \in DOMAIN asked[p]
                                    THEN asked[p] ELSE [index |-> live],
                      liveBalances |-> <<[value |-> Num(v), currency |-> Currency]>>]
           r == getCurrencyBalance(answer, entry.currency)
       IN /\ answered' = [answered EXCEPT ![p] = answer]
          /\ IF r.thrown # "none"
             THEN /\ pc' = [pc EXCEPT ![p] = "fault"]
                  /\ UNCHANGED call
             ELSE /\ pc' = [pc EXCEPT ![p] = "compare"]
                  /\ call' = [call EXCEPT ![p] =
                                NewCall(entry.account_identifier,
                                        Prop(r, IF p = "active" THEN "value" ELSE "amount"),
                                        Prop(r, "block"), p = "inactive")]
  /\ UNCHANGED <<config, compared, lastQueue, asked, headFailed, shared, changeQueue, head, activeLocals, inactiveLocals, calls>>

\* the syncer hands over the balance changes of one block
QueueChanges ==
  \E i \in {head}, a \in Accounts :
    LET batch == <<BalanceChange(a, i)>>
        r == queueChanges(changeQueue, lookupBalanceByBlock, highWaterMark,
                          interestingAccounts, [index |-> i], batch)
    IN /\ Len(changeQueue) < MaxQueue
       /\ changeQueue' = r.changeQueue
       /\ lastQueue' = [batch |-> batch, thrown |-> r.thrown,
                        pushed |-> SubSeq(r.changeQueue, Len(changeQueue) + 1,
                                          Len(r.changeQueue))]
       /\ UNCHANGED <<config, compared, asked, answered, headFailed, shared, head, pc, call, activeLocals, inactiveLocals, calls>>

\* a client calls compareBalance itself, lines 130-164: exists, cached and
\* balanceIndex are what the helper answers (or would answer) for the block
CompareBalanceCall ==
  /\ \E amount \in Values, i \in 0..(MaxBlock + 1), exists \in BOOLEAN,
        cached \in Values, balanceIndex \in 0..head :
       compared' = [amount |-> Num(amount), blockIdentifier |-> [index |-> i],
                    head |-> [index |-> head], exists |-> exists,
                    cachedBalance |-> [value |-> Num(cached)],
                    balanceBlock |-> [index |-> balanceIndex],
                    result |-> compareBalance(Num(amount), [index |-> i], [index |-> head],
                                              exists, [value |-> Num(cached)],
                                              [index |-> balanceIndex])]
  /\ UNCHANGED <<config, lastQueue, asked, answered, headFailed, shared, changeQueue,
                 head, pc, call, activeLocals, inactiveLocals, calls>>

\* the syncer stores another block
AdvanceHead ==
  /\ head < MaxBlock
  /\ head' = head + 1
  /\ UNCHANGED <<config, compared, lastQueue, asked, answered, headFailed, shared, changeQueue, pc, call, activeLocals, inactiveLocals, calls>>

Next ==
  \/ DirectCall
  \/ \E p \in Callers : Compare(p)
  \/ \E p \in Callers : FailedReturn(p)
  \/ \E p \in Callers : SucceededReturn(p)
  \/ \E p \in Callers : Wake(p)
  \/ ActiveTop
  \/ InactiveTop
  \/ \E p \in Callers : LoopBest(p)
  \/ QueueChanges
  \/ AdvanceHead

Spec == Init /\ [][Next]_vars

\* the coordinator with the inactive loop, which share inactiveQueue
NextReconciliation ==
  \/ DirectCall
  \/ \E p \in Callers : Compare(p)
  \/ \E p \in Callers : FailedReturn(p)
  \/ \E p \in Callers : SucceededReturn(p)
  \/ \E p \in Callers : Wake(p)
  \/ InactiveTop
  \/ \E p \in Callers : LoopBest(p)
  \/ AdvanceHead

SpecReconciliation == Init /\ [][NextReconciliation]_vars

\* accountReconciliation called by a client, the loops not started
NextCoordinator ==
  \/ DirectCall
  \/ \E p \in Callers : Compare(p)
  \/ \E p \in Callers : FailedReturn(p)
  \/ \E p \in Callers : SucceededReturn(p)
  \/ AdvanceHead

\* interestingAccounts, which only queueChanges reads, left at its default (line 68)
InitCoordinator == Init /\ interestingAccounts = {}

SpecCoordinator == InitCoordinator /\ [][NextCoordinator]_vars

\* the syncer with the active loop, which share changeQueue
NextActive ==
  \/ QueueChanges
  \/ ActiveTop
  \/ \E p \in Callers : LoopBest(p)
  \/ AdvanceHead

SpecActive == Init /\ [][NextActive]_vars

\* active-path calls of accountReconciliation beside the inactive loop up to
\* its await of bestBalance, which share seenAccounts and inactiveQueue
NextSeeding ==
  \/ ActiveCall
  \/ \E p \in Callers : Compare(p)
  \/ \E p \in Callers : FailedReturn(p)
  \/ \E p \in Callers : SucceededReturn(p)
  \/ \E p \in Callers : Wake(p)
  \/ InactiveTop
  \/ AdvanceHead

\* the defaults of lines 40 and 68: lookupBalanceByBlock true, no interestingAccounts
InitDefaults == Init /\ lookupBalanceByBlock /\ interestingAccounts = {}

SpecSeeding == InitDefaults /\ [][NextSeeding]_vars

\* compareBalance called by a client while the syncer stores blocks
NextCompare ==
  \/ CompareBalanceCall
  \/ AdvanceHead

SpecCompare == Init /\ [][NextCompare]_vars

\* ------------------------------------------------------------------ claims
Behind(c) == c.error = "ERROR_HEAD_BEHIND_LIVE"
Stale(c) == c.error \in {"ACCOUNT_UPDATED", "BLOCK_GONE"}

\* C1: a call whose comparison completes with difference zero has invoked
\* reconciliationSucceeded exactly once and reconciliationFailed not at all.
C1_MatchCallsSuccessOnce ==
  \A p \in Callers :
    (call[p].error = "none" /\ call[p].difference = Num(0))
      => (call[p].succeeded = 1 /\ call[p].failed = 0)

\* a returned call that compared cached 1 against claimed 1 at the head block
C1_Witness ==
  /\ call["direct"].done
  /\ call["direct"].error = "none"
  /\ call["direct"].cachedBalance = Num(1)
  /\ call["direct"].amount = Num(1)
  /\ call["direct"].blockIdentifier.index = head
  /\ call["direct"].difference = Num(0)
  /\ call["direct"].succeeded = 1

\* C2: a call whose comparison completes with a non-zero difference invokes
\* reconciliationFailed with that cached balance and claimed amount and does
\* not invoke reconciliationSucceeded.
C2_MismatchCallsFailureOnly ==
  \A p \in Callers :
    (call[p].error = "none" /\ call[p].difference # Num(0))
      => /\ call[p].failed = 1
         /\ call[p].failedWith = <<call[p].cachedBalance, call[p].amount>>
         /\ call[p].succeeded = 0

\* C3: after ACCOUNT_UPDATED or BLOCK_GONE neither callback is invoked, no
\* error leaves the call, and the inactive-queue bookkeeping has run by the
\* time the call returns.
C3_StaleAttemptIsSkipped ==
  \A p \in Callers :
    Stale(call[p])
      => /\ call[p].failed = 0
         /\ call[p].succeeded = 0
         /\ call[p].thrown = "none"
         /\ call[p].done => call[p].queued = 1

\* C4: after ERROR_HEAD_BEHIND_LIVE with a lag below waitToCheckDiff the call
\* is sleeping or about to compare again: no callback, no bookkeeping, no error.
C4_SmallLagRetries ==
  \A p \in Callers :
    (Behind(call[p]) /\ call[p].lag < waitToCheckDiff)
      => /\ pc[p] \in {"retrySleep", "compare"}
         /\ call[p].thrown = "none"
         /\ call[p].failed = 0
         /\ call[p].succeeded = 0
         /\ call[p].queued = 0

\* C5: after ERROR_HEAD_BEHIND_LIVE with a lag of waitToCheckDiff or more the
\* attempt is abandoned: highWaterMark became claimedBlock.index, no callback
\* is invoked and no error leaves the call.
C5_LargeLagRaisesMark ==
  \A p \in Callers :
    (Behind(call[p]) /\ call[p].lag >= waitToCheckDiff)
      => /\ call[p].markAfter = Num(call[p].blockIdentifier.index)
         /\ call[p].thrown = "none"
         /\ call[p].failed = 0
         /\ call[p].succeeded = 0
         /\ pc[p] # "retrySleep"

\* C6: highWaterMark is -1 after construction and no step lowers it.
C6_MarkStartsDisabledNeverLowered ==
  /\ highWaterMark = Num(defaultHighWaterMark)
  /\ [][~JsLt(highWaterMark', highWaterMark)]_vars

InCoordinator(p) == pc[p] \in {"compare", "failedCb", "succeededCb", "retrySleep"}

\* C7: every event the active loop discards has a block index below
\* highWaterMark and never reaches bestBalance or compareBalance; the event it
\* hands on has a block index at or above highWaterMark.
C7_OnlyStaleEventsDropped ==
  /\ \A i \in 1..Len(dropped) : JsLt(Num(dropped[i].block.index), highWaterMark)
  /\ (pc["active"] = "best" \/ InCoordinator("active"))
       => /\ balanceChange # None
          /\ ~JsLt(Num(balanceChange.block.index), highWaterMark)
          /\ \A i \in 1..Len(dropped) : dropped[i] # balanceChange

\* one run of the loop dropped an event below the mark and kept one at the mark
C7_Witness ==
  /\ ToNumber(highWaterMark) = Num(1)
  /\ Len(dropped) > 0
  /\ dropped[1].block.index = 0
  /\ pc["active"] = "best"
  /\ balanceChange.block.index = 1

\* C8: active-path bookkeeping pushes an AccountCurrency on inactiveQueue
\* exactly once however often it runs for it, and never for an
\* AccountCurrency the constructor seeded from withSeenAccounts.
C8_SeededOnceFromActivePath ==
  \A h \in AllHashes :
    activeAppends[h] = IF activeRuns[h] > 0 /\ h \notin preSeeded THEN 1 ELSE 0

\* the same account went through active-path bookkeeping twice
C8_Witness ==
  \E h \in AllHashes :
    /\ h \notin preSeeded
    /\ activeRuns[h] >= 2
    /\ activeAppends[h] = 1

\* C9: the inactive loop shifts the front entry only if it was never checked
\* or its last check lies more than requiredDepthInactive blocks behind head.
C9_PoppedOnlyWhenDue ==
  randomAccount # None
    => \/ "lastCheck" \notin DOMAIN randomAccount
       \/ randomAccount.lastCheck.index + requiredDepthInactive < poppedAt

\* C10: every AccountCurrency ever pushed on inactiveQueue is in the queue or
\* is the entry the inactive loop is reconciling.
C10_RotationKeepsEveryAccount ==
  \A h \in rotation :
    \/ \E i \in 1..Len(inactiveQueue) : Hash(inactiveQueue[i].entry) = h
    \/ /\ pc["inactive"] = "best" \/ InCoordinator("inactive")
       /\ Hash(randomAccount.entry) = h

\* C11 as stated: whenever the helper's blockExists answers false for the
\* claimed block, compareBalance fails with BLOCK_GONE, whatever the head
\* index, the claimed block index and the balances are.
C11_GoneWheneverBlockMissing ==
  (compared # None /\ ~compared.exists) => compared.result.error = "BLOCK_GONE"

\* C11, amended: when the claimed block is not ahead of the head and
\* blockExists answers false for it, compareBalance fails with BLOCK_GONE,
\* whatever the balances and the balance block are.
C11_GoneWhenAskedAndMissing ==
  (/\ compared # None
   /\ compared.blockIdentifier.index <= compared.head.index
   /\ ~compared.exists)
    => compared.result.error = "BLOCK_GONE"

\* equal balances at the head block, the block missing: BLOCK_GONE
C11_Witness ==
  /\ compared # None
  /\ compared.blockIdentifier.index = compared.head.index
  /\ ~compared.exists
  /\ compared.cachedBalance.value = compared.amount
  /\ compared.balanceBlock.index <= compared.blockIdentifier.index
  /\ compared.result.error = "BLOCK_GONE"

\* C12 as stated: whenever the cached balance was last updated at a block
\* after the claimed one, compareBalance fails with ACCOUNT_UPDATED, whatever
\* the head, the existence of the block and the balances are.
C12_UpdatedWheneverBalanceNewer ==
  (compared # None /\ compared.balanceBlock.index > compared.blockIdentifier.index)
    => compared.result.error = "ACCOUNT_UPDATED"

\* C12, amended: when the claimed block exists and the cached balance was last
\* updated at a block after it, compareBalance fails with ACCOUNT_UPDATED,
\* whatever the balances are.
C12_UpdatedWhenBlockExists ==
  (/\ compared # None
   /\ compared.exists
   /\ compared.balanceBlock.index > compared.blockIdentifier.index)
    => compared.result.error = "ACCOUNT_UPDATED"

\* equal balances claimed at block 0, the balance last updated at block 1
C12_Witness ==
  /\ compared # None
  /\ compared.exists
  /\ compared.cachedBalance.value = compared.amount
  /\ compared.blockIdentifier.index = 0
  /\ compared.balanceBlock.index = 1
  /\ compared.result.error = "ACCOUNT_UPDATED"

\* C13: a failure of the comparison other than HEAD_BEHIND_LIVE,
\* ACCOUNT_UPDATED and BLOCK_GONE, a ReconcilerError of another type included,
\* leaves accountReconciliation as an error: no callback is invoked and the
\* attempt is not passed on to the inactive-queue bookkeeping.
C13_OtherFailuresAreFatal ==
  \A p \in Callers :
    call[p].error \in (HelperFailures \ {"none"})
      => /\ call[p].thrown # "none"
         /\ call[p].failed = 0
         /\ call[p].succeeded = 0
         /\ call[p].queued = 0

\* C14: the active loop that finds changeQueue empty (or holding only stale
\* events) waits for the next event: it has not ended with an error.
C14_EmptyQueueWaits ==
  ~(pc["active"] = "fault" /\ balanceChange = None)

\* C15: the block bestBalance hands to the fetcher is the given
\* partialBlockIdentifier exactly when lookupBalanceByBlock is enabled, and
\* null (the latest balance) when it is disabled.
C15_LookupByBlockPassesIdentifier ==
  \A p \in Loops :
    asked[p] # None => (asked[p] # Null <=> lookupBalanceByBlock)

\* C16: a queueChanges call of a reconciler with interesting accounts
\* completes without error and enqueues exactly one event for each of them:
\* the batch's own event when the batch has one, a synthesized one otherwise.
C16_InterestingAccountsAppended ==
  (lastQueue # None /\ interestingAccounts # {})
    => /\ lastQueue.thrown = "none"
       /\ \A account \in interestingAccounts :
            Cardinality({i \in 1..Len(lastQueue.pushed) :
                           /\ lastQueue.pushed[i].account_identifier = account.account
                           /\ lastQueue.pushed[i].currency = account.currency}) = 1

\* C17: when helper.currentBlock failed in the last run of the inactive loop's
\* top, the loop is sleeping or back at its top to fetch the head again: it
\* has popped nothing from inactiveQueue and has not ended with an error.
C17_HeadFailureBacksOff ==
  headFailed => pc["inactive"] \in {"sleep", "top"}

\* C18, the safety part every behaviour of the claim needs: while no
\* accountReconciliation call of the inactive loop has raised a fatal error,
\* the loop has not ended, so the entry it popped is on its way to being
\* reconciled and pushed back.
C18_InactiveLoopKeepsRunning ==
  ~(pc["inactive"] = "fault" /\ call["inactive"].thrown = "none")

\* C20: once the fetcher has answered a loop with a balance of the account's
\* currency, the loop has not ended with an error, and the amount and block
\* it hands to accountReconciliation are that balance's value and the live
\* block of the answer.
C20_ClaimIsWhatBestBalanceReturned ==
  \A p \in Loops :
    answered[p] # None
      => /\ ~(pc[p] = "fault" /\ call[p].thrown = "none")
         /\ call[p].amount = answered[p].liveBalances[1].value
         /\ call[p].blockIdentifier = answered[p].liveBlock

\* the entry the inactive loop shifted at line 337 and has not pushed back
inFlight ==
  IF pc["inactive"] = "best" \/ (InCoordinator("inactive") /\ call["inactive"].queued = 0)
  THEN <<randomAccount>>
  ELSE << >>

\* C19: no AccountCurrency occurs twice among the entries of inactiveQueue
\* and the entry in flight in the inactive loop, and every AccountCurrency in
\* inactiveQueue is a member of seenAccounts.
C19_QueueHoldsEachSeenAccountOnce ==
  LET entries == inactiveQueue \o inFlight
  IN /\ \A i, j \in 1..Len(entries) :
          Hash(entries[i].entry) = Hash(entries[j].entry) => i = j
     /\ \A i \in 1..Len(inactiveQueue) : Hash(inactiveQueue[i].entry) \in seenAccounts

\* the inactive loop holds the seeded account in flight while the active
\* path has run for that account and has queued another one
C19_Witness ==
  /\ pc["inactive"] = "best"
  /\ Hash(randomAccount.entry) \in preSeeded
  /\ activeRuns[Hash(randomAccount.entry)] >= 1
  /\ Len(inactiveQueue) = 1
  /\ Hash(inactiveQueue[1].entry) \notin preSeeded
  /\ activeAppends[Hash(inactiveQueue[1].entry)] = 1

====
